---- MODULE Spec2Model ----
(***************************************************************************)
(* A model of src/app/code_gen_agent.py: the invoke entrypoint, the Create *)
(* flow (handle_create_project), the Update flow (handle_update_project),  *)
(* the S3 helpers and the pure helpers they use.                           *)
(*                                                                         *)
(* Strings are TLA+ strings; TLC evaluates Len, \o, SubSeq, Head and Tail  *)
(* on them, so keys are built by the same concatenations as in the code.   *)
(* A Python dict is a sequence of [k, v] records in insertion order.       *)
(* The object store is a function from the keys present to the objects     *)
(* stored under them.  The generation service (call_model) and the store   *)
(* are the environment: their answers are drawn from small sets, and each  *)
(* call may fail.                                                          *)
(***************************************************************************)
EXTENDS Integers, Sequences, FiniteSets, TLC

VARIABLES
    store,      \* the bucket: key -> stored object
    inv,        \* per invocation slot: the locals of invoke and of its flow
    started,    \* number of invocations begun so far
    hist,       \* per invocation slot: what the invocation has done (history)
    touched,    \* per projectId: the keys its invocations have read and written (history)
    call        \* a call of one of the pure helpers on its own: arguments, locals, result

vars == <<store, inv, started, hist, touched, call>>

----------------------------------------------------------------------------
(* Bounds of the model *)

\* number of invocations of invoke in one behaviour, one after the other
MaxInvocations == 2

\* number of invocations in one behaviour when two may overlap
MaxOverlapping == 3

\* the invocation slots: invocations in different slots may overlap
Slots == {1, 2}

----------------------------------------------------------------------------
(* Module-level configuration *)

S3_PREFIX == "projects/"

CODE_PREFIX == "files/"

REQ_PREFIX == "requirements/"

----------------------------------------------------------------------------
(* Python string and list primitives *)

Range(s) == {s[i] : i \in DOMAIN s}

CharAt(s, i) == SubSeq(s, i, i)

\* str.lstrip(c) for a one-character c
RECURSIVE lstrip(_, _)
lstrip(s, c) ==
    IF Len(s) > 0 /\ CharAt(s, 1) = c THEN lstrip(Tail(s), c) ELSE s

\* str.rstrip(c) for a one-character c
RECURSIVE rstrip(_, _)
rstrip(s, c) ==
    IF Len(s) > 0 /\ CharAt(s, Len(s)) = c
    THEN rstrip(SubSeq(s, 1, Len(s) - 1), c)
    ELSE s

\* str.count(w): the number of non-overlapping occurrences, scanning left to right
RECURSIVE count(_, _)
count(text, w) ==
    IF Len(w) = 0 THEN Len(text) + 1
    ELSE IF Len(text) < Len(w) THEN 0
    ELSE IF SubSeq(text, 1, Len(w)) = w
         THEN 1 + count(SubSeq(text, Len(w) + 1, Len(text)), w)
         ELSE count(Tail(text), w)

LowerLetters == "abcdefghijklmnopqrstuvwxyz"

UpperLetters == "ABCDEFGHIJKLMNOPQRSTUVWXYZ"

DigitsAndUnderscore == "0123456789_"

CharsOf(s) == {CharAt(s, i) : i \in 1 .. Len(s)}

\* the character class [a-zA-Z0-9_]
WordChars == CharsOf(LowerLetters) \cup CharsOf(UpperLetters) \cup CharsOf(DigitsAndUnderscore)

LowerChar(c) ==
    IF c \in CharsOf(UpperLetters)
    THEN CharAt(LowerLetters, CHOOSE i \in 1 .. Len(UpperLetters) : CharAt(UpperLetters, i) = c)
    ELSE c

\* str.lower()
RECURSIVE lower(_)
lower(s) == IF Len(s) = 0 THEN "" ELSE LowerChar(CharAt(s, 1)) \o lower(Tail(s))

\* re.findall(r"[a-zA-Z0-9_]+", s): the maximal runs of word characters, in order
RECURSIVE findall_words(_, _)
findall_words(s, cur) ==
    IF Len(s) = 0 THEN (IF Len(cur) > 0 THEN <<cur>> ELSE <<>>)
    ELSE IF CharAt(s, 1) \in WordChars
         THEN findall_words(Tail(s), cur \o CharAt(s, 1))
         ELSE (IF Len(cur) > 0 THEN <<cur>> ELSE <<>>) \o findall_words(Tail(s), "")

\* [x for x in seq if x in members]
RECURSIVE FilterIn(_, _)
FilterIn(seq, members) ==
    IF seq = <<>> THEN <<>>
    ELSE (IF Head(seq) \in members THEN <<Head(seq)>> ELSE <<>>)
         \o FilterIn(Tail(seq), members)

\* a slice index of Python: a negative one counts from the end, and it is clamped
SliceIndex(i, n) ==
    IF i < 0 THEN (IF i + n < 0 THEN 0 ELSE i + n) ELSE (IF i > n THEN n ELSE i)

\* s[start:end], for a string and for a list
PySlice(s, start, end) ==
    LET from == SliceIndex(start, Len(s))
        to == SliceIndex(end, Len(s))
    IN IF from < to THEN SubSeq(s, from + 1, to) ELSE SubSeq(s, 1, 0)

\* seq[:n]
Take(seq, n) == PySlice(seq, 0, n)

NoDuplicates(seq) == \A i, j \in DOMAIN seq : seq[i] = seq[j] => i = j

----------------------------------------------------------------------------
(* Python dict: a sequence of [k, v] in insertion order *)

EmptyDict == <<>>

DictKeys(d) == [i \in DOMAIN d |-> d[i].k]

DictKeySet(d) == {d[i].k : i \in DOMAIN d}

DictHas(d, key) == key \in DictKeySet(d)

\* d.get(key, default)
DictGet(d, key, default) ==
    IF DictHas(d, key) THEN d[CHOOSE i \in DOMAIN d : d[i].k = key].v ELSE default

\* d[key] = value: in place when the key is present, appended otherwise
DictSet(d, key, value) ==
    IF DictHas(d, key)
    THEN [i \in DOMAIN d |-> IF d[i].k = key THEN [k |-> key, v |-> value] ELSE d[i]]
    ELSE Append(d, [k |-> key, v |-> value])

----------------------------------------------------------------------------
(* S3 key helpers *)

project_prefix(project_id) == rstrip(S3_PREFIX, "/") \o "/" \o project_id \o "/"

snapshot_key(project_id) == project_prefix(project_id) \o "snapshot.json"

file_key(project_id, path) == project_prefix(project_id) \o CODE_PREFIX \o lstrip(path, "/")

requirement_key(project_id, requirement_id) ==
    project_prefix(project_id) \o REQ_PREFIX \o requirement_id \o ".txt"

----------------------------------------------------------------------------
(* The object store *)

EmptyStore == [key \in {} |-> [kind |-> "none"]]

\* put_object: the whole object under the key is replaced
put_object(s, key, body) ==
    [k \in DOMAIN s \cup {key} |-> IF k = key THEN body ELSE s[k]]

\* the bodies written: a snapshot document, a code file, a requirement text
SnapshotBody(snapshot) == [kind |-> "json", doc |-> snapshot]

TextBody(text) == [kind |-> "text", text |-> text]

----------------------------------------------------------------------------
(* JSON values as json.loads returns them.  A text of the generation       *)
(* service is a record [text, parsed]: the characters, and what json.loads *)
(* makes of them ([t |-> "invalid"] when it raises).                       *)

JsonInvalid == [t |-> "invalid"]

JsonNull == [t |-> "null"]

JsonList(items) == [t |-> "list", items |-> items]

JsonDict(d) == [t |-> "dict", d |-> d]

\* Python truthiness of a JSON value
Truthy(v) ==
    CASE v.t = "null" -> FALSE
      [] v.t = "list" -> v.items # <<>>
      [] v.t = "dict" -> v.d # <<>>
      [] OTHER -> TRUE

\* a or b
PyOr(a, b) == IF Truthy(a) THEN a ELSE b

----------------------------------------------------------------------------
(* Snapshots *)

\* the {} that load_snapshot returns for a project without a readable snapshot
NoSnapshot == [t |-> "dict", d |-> EmptyDict]

\* snapshot.get(field, default) on a loaded snapshot
SnapGet(snapshot, field, default) == DictGet(snapshot.d, field, default)

\* load_snapshot: the stored document, {} when the read or the parse raises.
\* `fails` is whether get_object raises for a reason other than absence.
load_snapshot(s, project_id, fails) ==
    LET key == snapshot_key(project_id) IN
    IF fails \/ key \notin DOMAIN s THEN NoSnapshot
    ELSE IF s[key].kind = "json" THEN s[key].doc
    ELSE NoSnapshot

\* save_snapshot made a read-modify-write: the files the stored snapshot lists
\* and the written one does not are kept
save_snapshot_merging(s, project_id, snapshot) ==
    LET stored == load_snapshot(s, project_id, FALSE)
        mine == SnapGet(snapshot, "files", <<>>)
        RECURSIVE Others(_)
        Others(fs) ==
            IF fs = <<>> THEN <<>>
            ELSE (IF Head(fs) \in Range(mine) THEN <<>> ELSE <<Head(fs)>>) \o Others(Tail(fs))
        merged == mine \o Others(SnapGet(stored, "files", <<>>))
    IN put_object(s, snapshot_key(project_id),
                  SnapshotBody(JsonDict(DictSet(snapshot.d, "files", merged))))

\* save_snapshot
save_snapshot(s, project_id, snapshot) ==
    put_object(s, snapshot_key(project_id), SnapshotBody(snapshot))

\* the dict literal of handle_create_project
CreateSnapshot(project_id, language, framework, global_spec, generated_files, roles, summaries, req_key) ==
    JsonDict(<<[k |-> "projectId", v |-> project_id],
               [k |-> "language", v |-> language],
               [k |-> "framework", v |-> framework],
               [k |-> "globalSpec", v |-> global_spec],
               [k |-> "files", v |-> DictKeys(generated_files)],
               [k |-> "roles", v |-> roles],
               [k |-> "summaries", v |-> summaries],
               [k |-> "lastRequirementKey", v |-> req_key]>>)

\* the dict literal of handle_update_project
UpdateSnapshot(project_id, language, snapshot, global_spec, files, roles, summaries, change_spec_text) ==
    JsonDict(<<[k |-> "projectId", v |-> project_id],
               [k |-> "language", v |-> language],
               [k |-> "framework", v |-> SnapGet(snapshot, "framework", "")],
               [k |-> "globalSpec", v |-> global_spec],
               [k |-> "files", v |-> files],
               [k |-> "roles", v |-> roles],
               [k |-> "summaries", v |-> summaries],
               [k |-> "lastChangeSpec", v |-> change_spec_text]>>)

----------------------------------------------------------------------------
(* parse_llm_files and the block format the flows write *)

\* the characters str.strip() and str.rstrip() remove
Whitespace == {" ", "\n", "\t"}

\* str.rstrip()
RECURSIVE rstrip_ws(_)
rstrip_ws(s) ==
    IF Len(s) > 0 /\ CharAt(s, Len(s)) \in Whitespace
    THEN rstrip_ws(SubSeq(s, 1, Len(s) - 1))
    ELSE s

\* str.lstrip()
RECURSIVE lstrip_ws(_)
lstrip_ws(s) ==
    IF Len(s) > 0 /\ CharAt(s, 1) \in Whitespace THEN lstrip_ws(Tail(s)) ELSE s

\* str.strip()
strip(s) == lstrip_ws(rstrip_ws(s))

\* str.splitlines() for texts whose only line boundary is "\n": a final line
\* without characters is not a line
RECURSIVE splitlines_from(_, _)
splitlines_from(s, cur) ==
    IF Len(s) = 0 THEN (IF Len(cur) > 0 THEN <<cur>> ELSE <<>>)
    ELSE IF CharAt(s, 1) = "\n" THEN <<cur>> \o splitlines_from(Tail(s), "")
    ELSE splitlines_from(Tail(s), cur \o CharAt(s, 1))

splitlines(s) == splitlines_from(s, "")

\* sep.join(parts)
RECURSIVE join(_, _)
join(sep, parts) ==
    IF parts = <<>> THEN ""
    ELSE IF Len(parts) = 1 THEN parts[1]
    ELSE parts[1] \o sep \o join(sep, Tail(parts))

MARKER_OPEN == "<<<FILE:"

MARKER_CLOSE == ">>>"

\* FILE_MARKER.match on a stripped line: ^<<<FILE:(.+?)>>>\s*$ matches when the
\* line opens with <<<FILE:, closes with >>> and has a character in between
FILE_MARKER_matches(line) ==
    /\ Len(line) >= Len(MARKER_OPEN) + 1 + Len(MARKER_CLOSE)
    /\ SubSeq(line, 1, Len(MARKER_OPEN)) = MARKER_OPEN
    /\ SubSeq(line, Len(line) - Len(MARKER_CLOSE) + 1, Len(line)) = MARKER_CLOSE

\* m.group(1)
FILE_MARKER_group(line) == SubSeq(line, Len(MARKER_OPEN) + 1, Len(line) - Len(MARKER_CLOSE))

\* "\n".join(buffer).rstrip() + "\n"
BlockContent(buffer) == rstrip_ws(join("\n", buffer)) \o "\n"

\* lines 127-136: the loop over the lines; no path is current while current_path = <<>>
RECURSIVE parse_lines(_, _, _, _)
parse_lines(lines, files, current_path, buffer) ==
    IF lines = <<>>
    THEN [files |-> files, current_path |-> current_path, buffer |-> buffer]
    ELSE LET line == Head(lines)
             stripped == strip(line)
         IN IF FILE_MARKER_matches(stripped)
            THEN parse_lines(Tail(lines),
                             IF current_path # <<>>
                             THEN DictSet(files, current_path[1], BlockContent(buffer))
                             ELSE files,
                             <<strip(FILE_MARKER_group(stripped))>>, <<>>)
            ELSE parse_lines(Tail(lines), files, current_path,
                             IF current_path # <<>> THEN Append(buffer, line) ELSE buffer)

\* lines 118-142
parse_llm_files(text) ==
    LET end == parse_lines(splitlines(text), EmptyDict, <<>>, <<>>)
    IN IF end.current_path # <<>>
       THEN DictSet(end.files, end.current_path[1], BlockContent(end.buffer))
       ELSE end.files

\* lines 415-417: "\n\n".join(f"<<<FILE:{path}>>>\n{code}" for path, code in files.items())
FormatBlocks(files) ==
    join("\n\n", [n \in DOMAIN files |-> MARKER_OPEN \o files[n].k \o MARKER_CLOSE \o "\n" \o files[n].v])

----------------------------------------------------------------------------
(* relevant_files *)

\* the lowercased words of the prompt that are longer than two characters
QueryWords(prompt) ==
    LET found == findall_words(prompt, "")
        RECURSIVE Keep(_)
        Keep(ws) ==
            IF ws = <<>> THEN <<>>
            ELSE (IF Len(Head(ws)) > 2 THEN <<lower(Head(ws))>> ELSE <<>>) \o Keep(Tail(ws))
    IN Keep(found)

\* sum(text.count(w) for w in words)
RECURSIVE SumCounts(_, _)
SumCounts(text, words) ==
    IF words = <<>> THEN 0 ELSE count(text, Head(words)) + SumCounts(text, Tail(words))

Scored(words, summaries) ==
    [i \in DOMAIN summaries |->
        [path |-> summaries[i].k,
         score |-> SumCounts(lower(summaries[i].k \o " " \o summaries[i].v), words)]]

\* list.sort(key=score, reverse=True): stable, descending
RECURSIVE SortByScoreDesc(_)
SortByScoreDesc(scored) ==
    IF scored = <<>> THEN <<>>
    ELSE LET n == Len(scored)
             front == SortByScoreDesc(SubSeq(scored, 1, n - 1))
             x == scored[n]
             \* x goes after every element whose score is at least its own
             pos == Cardinality({i \in DOMAIN front : front[i].score >= x.score})
         IN SubSeq(front, 1, pos) \o <<x>> \o SubSeq(front, pos + 1, Len(front))

relevant_files(prompt, summaries, max_count) ==
    LET words == QueryWords(prompt)
        scored == SortByScoreDesc(Scored(words, summaries))
        RECURSIVE Positive(_)
        Positive(sc) ==
            IF sc = <<>> THEN <<>>
            ELSE (IF Head(sc).score > 0 THEN <<Head(sc).path>> ELSE <<>>) \o Positive(Tail(sc))
        hits == Take(Positive(scored), max_count)
        firstTwo == Take(scored, 2)
    IN IF hits # <<>> THEN hits ELSE [i \in DOMAIN firstTwo |-> firstTwo[i].path]

----------------------------------------------------------------------------
(* chunk_requirement *)

REQUIREMENT_CHUNK_CHARS == 6000

\* chunk_body appending the slice without its first character
chunk_body_dropping(text, max_chars, start, chunks) ==
    LET n == Len(text)
        end == IF start + max_chars < n THEN start + max_chars ELSE n
    IN [start |-> end, chunks |-> Append(chunks, PySlice(text, start + 1, end))]

\* lines 220-222: one iteration of the while loop, giving the new start and chunks
chunk_body(text, max_chars, start, chunks) ==
    LET n == Len(text)
        end == IF start + max_chars < n THEN start + max_chars ELSE n
    IN [start |-> end, chunks |-> Append(chunks, PySlice(text, start, end))]

\* lines 219-223: the while loop run to its end; it has an end when max_chars >= 1
RECURSIVE chunk_loop(_, _, _, _)
chunk_loop(text, max_chars, start, chunks) ==
    IF start < Len(text)
    THEN LET after == chunk_body(text, max_chars, start, chunks)
         IN chunk_loop(text, max_chars, after.start, after.chunks)
    ELSE chunks

\* chunk_requirement as handle_create_project calls it, with max_chars = 6000
chunk_requirement(text, max_chars) == chunk_loop(text, max_chars, 0, <<>>)

----------------------------------------------------------------------------
(* plan_files_from_global_spec: what it returns for the planning text *)

NestSkeleton ==
    << JsonDict(<<[k |-> "path", v |-> "src/main.ts"], [k |-> "role", v |-> "bootstrap module"]>>),
       JsonDict(<<[k |-> "path", v |-> "src/app.module.ts"], [k |-> "role", v |-> "root module"]>>),
       JsonDict(<<[k |-> "path", v |-> "src/app.controller.ts"], [k |-> "role", v |-> "controller"]>>),
       JsonDict(<<[k |-> "path", v |-> "src/app.service.ts"], [k |-> "role", v |-> "service"]>>) >>

\* plan_files_from_global_spec with the skeleton returned for every stack
plan_files_skeleton_for_all(plan_text, language, framework) ==
    IF plan_text.parsed.t = "list" THEN plan_text.parsed.items ELSE NestSkeleton

\* lines 292-304: the parsed list, else the skeleton of the one registered stack
plan_files_from_global_spec(plan_text, language, framework) ==
    IF plan_text.parsed.t = "list" THEN plan_text.parsed.items
    ELSE IF language = "typescript" /\ framework = "nestjs" THEN NestSkeleton
    ELSE <<>>

----------------------------------------------------------------------------
(* find_impacted_files_from_spec *)

DEFAULT_MAX_COUNT == 5

\* impacted and new_files as lines 480-489 leave them
ParsedImpact(change_spec) ==
    LET obj == change_spec.parsed IN
    IF obj.t = "dict"
    THEN [impacted |-> PyOr(DictGet(obj.d, "impactedFiles", JsonList(<<>>)),
                            DictGet(obj.d, "files_to_update", JsonList(<<>>))),
          new_files |-> DictGet(obj.d, "newFiles", JsonList(<<>>))]
    ELSE [impacted |-> JsonList(<<>>), new_files |-> JsonList(<<>>)]

\* ResolveImpacted without the filter to the known paths
ResolveImpactedUnfiltered(impacted, change_spec, files, summaries) ==
    LET chosen == IF ~Truthy(impacted)
                  THEN JsonList(relevant_files(change_spec.text, summaries, DEFAULT_MAX_COUNT))
                  ELSE impacted
    IN IF chosen.t = "list"
       THEN [raised |-> FALSE, impactedFiles |-> chosen.items]
       ELSE [raised |-> TRUE, impactedFiles |-> <<>>]

\* lines 491-497: the fallback, then the filter to the known paths.
\* Iterating a value that is no list raises (raised = TRUE).
ResolveImpacted(impacted, change_spec, files, summaries) ==
    LET chosen == IF ~Truthy(impacted)
                  THEN JsonList(relevant_files(change_spec.text, summaries, DEFAULT_MAX_COUNT))
                  ELSE impacted
    IN IF chosen.t = "list"
       THEN [raised |-> FALSE, impactedFiles |-> FilterIn(chosen.items, Range(files))]
       ELSE [raised |-> TRUE, impactedFiles |-> <<>>]

find_impacted_files_from_spec(change_spec, snapshot) ==
    LET files == SnapGet(snapshot, "files", <<>>)
        summaries == SnapGet(snapshot, "summaries", EmptyDict)
        parsed == ParsedImpact(change_spec)
        resolved == ResolveImpacted(parsed.impacted, change_spec, files, summaries)
    IN [raised |-> resolved.raised,
        impactedFiles |-> resolved.impactedFiles,
        newFiles |-> parsed.new_files]

----------------------------------------------------------------------------
(* The environment: callers' payloads and the generation service's texts *)

\* projectId values callers send; any string is accepted by invoke
ProjectIds == {"p", "p/files"}

\* payloads for one project: the stack given or left to the defaults, the text
\* under `prompt`, under `changeRequest` or under no key at all
PayloadsFor(project_ids) ==
    { pl \in [projectId : project_ids,
              language : {"", "TypeScript"},
              framework : {"", "nestjs"},
              prompt : {"", "add alpha api"},
              requirement : {""},
              changeRequest : {"", "add alpha api"}] :
        /\ (pl.language = "") = (pl.framework = "")
        /\ pl.prompt = "" \/ pl.changeRequest = "" }

Payloads == PayloadsFor({"p"})

\* payload.get(name) or default, for texts
TextOr(value, default) == IF value # "" THEN value ELSE default

\* which answers the generation service gives to the calls of one invocation
ServiceVariants == {1, 2}

CodeText(v) == IF v = 1 THEN "export class Alpha {}" ELSE "export class Beta {}"

SummaryText(v) == IF v = 1 THEN "Alpha service" ELSE "Beta controller"

GlobalSpecText(v) == IF v = 1 THEN "spec one" ELSE "spec two"

\* os.urandom(8).hex()
RequirementIds == {"00000000000000a1"}

NoText == [text |-> "", parsed |-> JsonInvalid]

Meta(path, role) == JsonDict(<<[k |-> "path", v |-> path], [k |-> "role", v |-> role]>>)

MetaNoRole(path) == JsonDict(<<[k |-> "path", v |-> path]>>)

MetaNoPath(role) == JsonDict(<<[k |-> "role", v |-> role]>>)

\* planning texts: not JSON; JSON that is no list; two files; a path repeated
\* and repeated with a leading slash; a file named snapshot.json; an entry
\* without a path
PlanTexts ==
    { [text |-> "Sure, here is the plan", parsed |-> JsonInvalid],
      [text |-> "{files: [a.ts]}", parsed |-> JsonDict(<<[k |-> "files", v |-> JsonList(<<"a.ts">>)]>>)],
      [text |-> "[a.ts, b.ts]",
       parsed |-> JsonList(<<Meta("a.ts", "service"), MetaNoRole("b.ts")>>)],
      [text |-> "[a.ts, /a.ts, a.ts]",
       parsed |-> JsonList(<<Meta("a.ts", "service"), Meta("/a.ts", "copy"), Meta("a.ts", "again")>>)],
      [text |-> "[snapshot.json]",
       parsed |-> JsonList(<<Meta("snapshot.json", "data")>>)],
      [text |-> "[{role}]",
       parsed |-> JsonList(<<MetaNoPath("orphan")>>)] }

Obj1(k1, v1) == JsonDict(<<[k |-> k1, v |-> v1]>>)

Obj2(k1, v1, k2, v2) == JsonDict(<<[k |-> k1, v |-> v1], [k |-> k2, v |-> v2]>>)

\* change-spec texts: not JSON; a known and an unknown impacted path; only an
\* unknown impacted path; the legacy key with new files; nulls; a number
ChangeSpecTexts ==
    { [text |-> "Rename the alpha field in a.ts", parsed |-> JsonInvalid],
      [text |-> "{impactedFiles: [a.ts, missing.ts], newFiles: []}",
       parsed |-> Obj2("impactedFiles", JsonList(<<"a.ts", "missing.ts">>), "newFiles", JsonList(<<>>))],
      [text |-> "{impactedFiles: [missing.ts]}",
       parsed |-> Obj1("impactedFiles", JsonList(<<"missing.ts">>))],
      [text |-> "{files_to_update: [b.ts], newFiles: [n.ts, n.ts, a.ts]}",
       parsed |-> Obj2("files_to_update", JsonList(<<"b.ts">>), "newFiles", JsonList(<<"n.ts", "n.ts", "a.ts">>))],
      [text |-> "{impactedFiles: null, newFiles: null}",
       parsed |-> Obj2("impactedFiles", JsonNull, "newFiles", JsonNull)],
      [text |-> "{impactedFiles: 7}",
       parsed |-> Obj1("impactedFiles", [t |-> "number"])] }


----------------------------------------------------------------------------
(* The state of one invocation *)

NoResponse == [kind |-> "none", error |-> "", created |-> FALSE, files |-> <<>>]

\* a dict returned by invoke
Response(error, created, files) ==
    [kind |-> "response", error |-> error, created |-> created, files |-> files]

\* an exception that leaves invoke; `error` names what raised it: "store" (a
\* put_object), "service" (call_model), "KeyError" (meta["path"]) or "TypeError"
\* (iterating a value that is no list)
Thrown(cause) == [kind |-> "exception", error |-> cause, created |-> FALSE, files |-> <<>>]

IdleLocals ==
    [pc |-> "idle", project_id |-> "", language |-> "", framework |-> "",
     requirement |-> "", variant |-> 0, snapshot |-> NoSnapshot, req_key |-> "", global_spec |-> "",
     plan_text |-> NoText, file_plan |-> <<>>,
     generated_files |-> EmptyDict, roles |-> EmptyDict, summaries |-> EmptyDict,
     files |-> <<>>, change_spec |-> NoText, impacted_files |-> <<>>,
     new_files |-> JsonList(<<>>), next |-> 1, updated_files |-> EmptyDict,
     created_files |-> EmptyDict, response |-> NoResponse]

FreshHistory ==
    [ranCreate |-> FALSE, ranUpdate |-> FALSE, storeReads |-> 0,
     storeWrites |-> 0, genCalls |-> 0, savedPaths |-> {}, snapshotWrites |-> 0,
     snapshotReads |-> 0, unreadable |-> {}]

NoKeys == [read |-> {}, written |-> {}]

Finished == {"returned", "raised", "crashed"}

CreatePCs == {"create", "create_generate", "create_save_files", "create_save_snapshot"}

UpdatePCs == {"update", "update_regenerate", "update_new_files", "update_save_files", "update_save_snapshot"}

\* no helper is called on its own
NoCall ==
    [fn |-> "none", pc |-> "none", text |-> "", n |-> 0, mapping |-> EmptyDict,
     start |-> 0, chunks |-> <<>>, result |-> <<>>]

Init ==
    /\ store = EmptyStore
    /\ inv = [i \in Slots |-> IdleLocals]
    /\ started = 0
    /\ hist = [i \in Slots |-> FreshHistory]
    /\ touched = [p \in ProjectIds |-> NoKeys]
    /\ call = NoCall

----------------------------------------------------------------------------
(* Bookkeeping shared by the actions *)

Read(p, key) == [touched EXCEPT ![p].read = @ \cup {key}]

Written(p, key) == [touched EXCEPT ![p].written = @ \cup {key}]

\* an exception leaves invoke: nothing catches it
\* the locals are gone once invoke has returned, raised or stopped
Finish(l, pc, response) ==
    [IdleLocals EXCEPT !.pc = pc, !.project_id = l.project_id, !.response = response]

Raise(i, cause) == [inv EXCEPT ![i] = Finish(inv[i], "raised", Thrown(cause))]

----------------------------------------------------------------------------
(* invoke *)

\* ChooseFlow without the test of the file list
ChooseFlowIgnoringFiles(snapshot) ==
    IF snapshot.d = EmptyDict THEN "create" ELSE "update"

\* lines 715-719: which flow invoke runs for the loaded snapshot
ChooseFlow(snapshot) ==
    IF snapshot.d = EmptyDict \/ SnapGet(snapshot, "files", <<>>) = <<>>
    THEN "create"
    ELSE "update"

\* Invoke with the snapshot loaded before the requirement text is tested
InvokeLoadingFirst(i, payloads, max) ==
    /\ started < max
    /\ inv[i].pc \in Finished \cup {"idle"}
    /\ \E payload \in payloads :
        LET project_id == payload.projectId
            language == lower(TextOr(payload.language, "python"))
            framework == TextOr(payload.framework, "fastapi")
            requirement == TextOr(payload.prompt, TextOr(payload.requirement, payload.changeRequest))
            locals == [IdleLocals EXCEPT !.project_id = project_id, !.language = language,
                                         !.framework = framework, !.requirement = requirement]
        IN /\ inv' = [inv EXCEPT ![i] =
                       IF requirement = ""
                       THEN Finish(locals, "returned",
                                   Response("Missing 'prompt', 'requirement' or 'changeRequest' in payload", FALSE, <<>>))
                       ELSE [locals EXCEPT !.pc = "load_snapshot"]]
           /\ hist' = [hist EXCEPT ![i] =
                        IF requirement = ""
                        THEN [FreshHistory EXCEPT !.storeReads = 1]
                        ELSE FreshHistory]
           /\ touched' = IF requirement = ""
                         THEN Read(project_id, snapshot_key(project_id))
                         ELSE touched
    /\ started' = started + 1
    /\ UNCHANGED store
    /\ UNCHANGED call

\* lines 698-709: read the payload; without a requirement text, return the error
Invoke(i, payloads, max) ==
    /\ started < max
    /\ inv[i].pc \in Finished \cup {"idle"}
    /\ \E payload \in payloads :
        LET project_id == payload.projectId
            language == lower(TextOr(payload.language, "python"))
            framework == TextOr(payload.framework, "fastapi")
            requirement == TextOr(payload.prompt, TextOr(payload.requirement, payload.changeRequest))
            locals == [IdleLocals EXCEPT !.project_id = project_id, !.language = language,
                                         !.framework = framework, !.requirement = requirement]
        IN inv' = [inv EXCEPT ![i] =
                    IF requirement = ""
                    THEN Finish(locals, "returned",
                                Response("Missing 'prompt', 'requirement' or 'changeRequest' in payload", FALSE, <<>>))
                    ELSE [locals EXCEPT !.pc = "load_snapshot"]]
    /\ started' = started + 1
    /\ hist' = [hist EXCEPT ![i] = FreshHistory]
    /\ UNCHANGED <<store, touched>>
    /\ UNCHANGED call

\* lines 711-719: load the snapshot and enter one of the two flows
LoadSnapshot(i) ==
    /\ inv[i].pc = "load_snapshot"
    /\ \E fails \in BOOLEAN, v \in ServiceVariants :
        LET snapshot == load_snapshot(store, inv[i].project_id, fails)
        IN inv' = [inv EXCEPT ![i].snapshot = snapshot, ![i].variant = v,
                              ![i].pc = ChooseFlow(snapshot)]
    /\ hist' = [hist EXCEPT ![i].storeReads = @ + 1, ![i].snapshotReads = @ + 1]
    /\ touched' = Read(inv[i].project_id, snapshot_key(inv[i].project_id))
    /\ UNCHANGED <<store, started>>
    /\ UNCHANGED call

----------------------------------------------------------------------------
(* handle_create_project *)

\* lines 369 and 107-111: save_requirement under a fresh random id
SaveRequirement(i) ==
    /\ inv[i].pc = "create"
    /\ \E rid \in RequirementIds, ok \in BOOLEAN :
        LET key == requirement_key(inv[i].project_id, rid) IN
        IF ok
        THEN /\ store' = put_object(store, key, TextBody(inv[i].requirement))
             /\ inv' = [inv EXCEPT ![i].req_key = key, ![i].pc = "create_generate"]
             /\ hist' = [hist EXCEPT ![i].ranCreate = TRUE, ![i].storeWrites = @ + 1]
             /\ touched' = Written(inv[i].project_id, key)
        ELSE /\ inv' = Raise(i, "store")
             /\ hist' = [hist EXCEPT ![i].ranCreate = TRUE]
             /\ UNCHANGED <<store, touched>>
    /\ UNCHANGED started
    /\ UNCHANGED call

\* lines 386-396: the per-file loop over the plan; meta["path"] raises when absent
RECURSIVE GenerateFiles(_, _, _)
GenerateFiles(file_plan, v, acc) ==
    IF file_plan = <<>> THEN acc
    ELSE LET meta == Head(file_plan) IN
         IF ~DictHas(meta.d, "path") THEN [acc EXCEPT !.raised = TRUE]
         ELSE LET path == DictGet(meta.d, "path", "")
                  role == DictGet(meta.d, "role", "")
              IN GenerateFiles(Tail(file_plan), v,
                    [acc EXCEPT !.generated_files = DictSet(@, path, CodeText(v)),
                                !.roles = DictSet(@, path, role),
                                !.summaries = DictSet(@, path, SummaryText(v)),
                                !.calls = @ + 2])

\* lines 372-396: chunk, summarize, merge, plan, generate; a failing call raises
CreateGenerate(i, plan_texts) ==
    /\ inv[i].pc = "create_generate"
    /\ \E plan_text \in plan_texts, ok \in BOOLEAN :
        LET v == inv[i].variant
            chunks == chunk_requirement(inv[i].requirement, REQUIREMENT_CHUNK_CHARS)
            file_plan == plan_files_from_global_spec(plan_text, inv[i].language, inv[i].framework)
            out == GenerateFiles(file_plan, v,
                        [raised |-> FALSE, generated_files |-> EmptyDict, roles |-> EmptyDict,
                         summaries |-> EmptyDict, calls |-> Len(chunks) + 2])
        IN IF ok /\ ~out.raised
           THEN /\ inv' = [inv EXCEPT ![i].global_spec = GlobalSpecText(v),
                                      ![i].plan_text = plan_text,
                                      ![i].file_plan = file_plan,
                                      ![i].generated_files = out.generated_files,
                                      ![i].roles = out.roles,
                                      ![i].summaries = out.summaries,
                                      ![i].next = 1,
                                      ![i].pc = IF out.generated_files = EmptyDict
                                                THEN "create_save_snapshot"
                                                ELSE "create_save_files"]
                /\ hist' = [hist EXCEPT ![i].genCalls = @ + out.calls]
           ELSE /\ inv' = Raise(i, IF ok THEN "KeyError" ELSE "service")
                /\ hist' = [hist EXCEPT ![i].genCalls = @ + 1]
    /\ UNCHANGED <<store, started, touched>>
    /\ UNCHANGED call

\* CreateSaveFile without the put_object
CreateSaveFileSkipping(i) ==
    /\ inv[i].pc = "create_save_files"
    /\ \E ok \in BOOLEAN :
        LET item == inv[i].generated_files[inv[i].next]
            key == file_key(inv[i].project_id, item.k)
        IN IF ok
           THEN /\ store' = store
                /\ inv' = [inv EXCEPT ![i].next = @ + 1,
                                      ![i].pc = IF inv[i].next = Len(inv[i].generated_files)
                                                THEN "create_save_snapshot"
                                                ELSE "create_save_files"]
                /\ hist' = [hist EXCEPT ![i].storeWrites = @ + 1, ![i].savedPaths = @ \cup {item.k}]
                /\ touched' = Written(inv[i].project_id, key)
           ELSE /\ inv' = Raise(i, "store")
                /\ UNCHANGED <<store, hist, touched>>
    /\ UNCHANGED started
    /\ UNCHANGED call

\* lines 399 and 91-98: save_code_files, one put_object per step
CreateSaveFile(i) ==
    /\ inv[i].pc = "create_save_files"
    /\ \E ok \in BOOLEAN :
        LET item == inv[i].generated_files[inv[i].next]
            key == file_key(inv[i].project_id, item.k)
        IN IF ok
           THEN /\ store' = put_object(store, key, TextBody(item.v))
                /\ inv' = [inv EXCEPT ![i].next = @ + 1,
                                      ![i].pc = IF inv[i].next = Len(inv[i].generated_files)
                                                THEN "create_save_snapshot"
                                                ELSE "create_save_files"]
                /\ hist' = [hist EXCEPT ![i].storeWrites = @ + 1, ![i].savedPaths = @ \cup {item.k}]
                /\ touched' = Written(inv[i].project_id, key)
           ELSE /\ inv' = Raise(i, "store")
                /\ UNCHANGED <<store, hist, touched>>
    /\ UNCHANGED started
    /\ UNCHANGED call

\* lines 402-425: write the snapshot and return
CreateSaveSnapshot(i) ==
    /\ inv[i].pc = "create_save_snapshot"
    /\ \E ok \in BOOLEAN :
        LET l == inv[i]
            snapshot == CreateSnapshot(l.project_id, l.language, l.framework, l.global_spec,
                                       l.generated_files, l.roles, l.summaries, l.req_key)
        IN IF ok
           THEN /\ store' = save_snapshot(store, l.project_id, snapshot)
                /\ inv' = [inv EXCEPT ![i] = Finish(l, "returned",
                                            Response("", TRUE, DictKeys(l.generated_files)))]
                /\ hist' = [hist EXCEPT ![i].storeWrites = @ + 1, ![i].snapshotWrites = @ + 1]
                /\ touched' = Written(l.project_id, snapshot_key(l.project_id))
           ELSE /\ inv' = Raise(i, "store")
                /\ UNCHANGED <<store, hist, touched>>
    /\ UNCHANGED started
    /\ UNCHANGED call

----------------------------------------------------------------------------
(* handle_update_project *)

\* lines 587-605: the early return without files, build_change_spec, impact
UpdatePlan(i, change_specs) ==
    /\ inv[i].pc = "update"
    /\ LET l == inv[i]
           files == SnapGet(l.snapshot, "files", <<>>)
       IN IF files = <<>>
          THEN /\ inv' = [inv EXCEPT ![i] = Finish(l, "returned",
                                     Response("No existing files found in snapshot", FALSE, <<>>))]
               /\ hist' = [hist EXCEPT ![i].ranUpdate = TRUE]
          ELSE \E change_spec \in change_specs, ok \in BOOLEAN :
                 LET impact_info == find_impacted_files_from_spec(change_spec, l.snapshot) IN
                 IF ok /\ ~impact_info.raised
                 THEN /\ inv' = [inv EXCEPT ![i].global_spec = SnapGet(l.snapshot, "globalSpec", ""),
                                            ![i].roles = SnapGet(l.snapshot, "roles", EmptyDict),
                                            ![i].summaries = SnapGet(l.snapshot, "summaries", EmptyDict),
                                            ![i].files = files,
                                            ![i].change_spec = change_spec,
                                            ![i].impacted_files = impact_info.impactedFiles,
                                            ![i].new_files = impact_info.newFiles,
                                            ![i].next = 1,
                                            ![i].pc = IF impact_info.impactedFiles = <<>>
                                                      THEN "update_new_files"
                                                      ELSE "update_regenerate"]
                      /\ hist' = [hist EXCEPT ![i].ranUpdate = TRUE, ![i].genCalls = @ + 1]
                 ELSE /\ inv' = Raise(i, IF ok THEN "TypeError" ELSE "service")
                      /\ hist' = [hist EXCEPT ![i].ranUpdate = TRUE, ![i].genCalls = @ + 1]
    /\ UNCHANGED <<store, started, touched>>
    /\ UNCHANGED call

\* UpdateRegenerate with the exception of load_code_file left to propagate
UpdateRegenerateStrict(i) ==
    /\ inv[i].pc = "update_regenerate"
    /\ \E readable \in BOOLEAN, ok \in BOOLEAN :
        LET l == inv[i]
            v == l.variant
            path == l.impacted_files[l.next]
            key == file_key(l.project_id, path)
            pc == IF l.next = Len(l.impacted_files) THEN "update_new_files" ELSE "update_regenerate"
        IN IF ~readable \/ key \notin DOMAIN store
           THEN /\ inv' = Raise(i, "store")
                /\ hist' = [hist EXCEPT ![i].storeReads = @ + 1, ![i].unreadable = @ \cup {path}]
           ELSE IF ok
           THEN /\ inv' = [inv EXCEPT ![i].updated_files = DictSet(@, path, CodeText(v)),
                                      ![i].summaries = DictSet(@, path, SummaryText(v)),
                                      ![i].next = @ + 1, ![i].pc = pc]
                /\ hist' = [hist EXCEPT ![i].storeReads = @ + 1, ![i].genCalls = @ + 2]
           ELSE /\ inv' = Raise(i, "service")
                /\ hist' = [hist EXCEPT ![i].storeReads = @ + 1, ![i].genCalls = @ + 1]
    /\ touched' = Read(inv[i].project_id, file_key(inv[i].project_id, inv[i].impacted_files[inv[i].next]))
    /\ UNCHANGED <<store, started>>
    /\ UNCHANGED call

\* lines 611-627: one impacted path per step; a file that cannot be loaded is skipped
UpdateRegenerate(i) ==
    /\ inv[i].pc = "update_regenerate"
    /\ \E readable \in BOOLEAN, ok \in BOOLEAN :
        LET l == inv[i]
            v == l.variant
            path == l.impacted_files[l.next]
            key == file_key(l.project_id, path)
            pc == IF l.next = Len(l.impacted_files) THEN "update_new_files" ELSE "update_regenerate"
        IN IF ~readable \/ key \notin DOMAIN store
           THEN /\ inv' = [inv EXCEPT ![i].next = @ + 1, ![i].pc = pc]
                /\ hist' = [hist EXCEPT ![i].storeReads = @ + 1, ![i].unreadable = @ \cup {path}]
           ELSE IF ok
           THEN /\ inv' = [inv EXCEPT ![i].updated_files = DictSet(@, path, CodeText(v)),
                                      ![i].summaries = DictSet(@, path, SummaryText(v)),
                                      ![i].next = @ + 1, ![i].pc = pc]
                /\ hist' = [hist EXCEPT ![i].storeReads = @ + 1, ![i].genCalls = @ + 2]
           ELSE /\ inv' = Raise(i, "service")
                /\ hist' = [hist EXCEPT ![i].storeReads = @ + 1, ![i].genCalls = @ + 1]
    /\ touched' = Read(inv[i].project_id, file_key(inv[i].project_id, inv[i].impacted_files[inv[i].next]))
    /\ UNCHANGED <<store, started>>
    /\ UNCHANGED call

\* GenerateNewFiles without the assignment of the default role
RECURSIVE GenerateNewFilesNoRole(_, _, _)
GenerateNewFilesNoRole(new_files, v, acc) ==
    IF new_files = <<>> THEN acc
    ELSE LET path == Head(new_files) IN
         IF path \in Range(acc.files) THEN GenerateNewFilesNoRole(Tail(new_files), v, acc)
         ELSE GenerateNewFilesNoRole(Tail(new_files), v,
                [acc EXCEPT !.created_files = DictSet(@, path, CodeText(v)),
                            !.summaries = DictSet(@, path, SummaryText(v)),
                            !.files = Append(@, path),
                            !.calls = @ + 2])

\* GenerateNewFiles without the test `path in files`
RECURSIVE GenerateNewFilesNoSkip(_, _, _)
GenerateNewFilesNoSkip(new_files, v, acc) ==
    IF new_files = <<>> THEN acc
    ELSE LET path == Head(new_files) IN
         GenerateNewFilesNoSkip(Tail(new_files), v,
                [acc EXCEPT !.created_files = DictSet(@, path, CodeText(v)),
                            !.roles = DictSet(@, path, "generated for change request"),
                            !.summaries = DictSet(@, path, SummaryText(v)),
                            !.files = Append(@, path),
                            !.calls = @ + 2])

\* lines 630-642: the loop over new_files; a path already in files is skipped
RECURSIVE GenerateNewFiles(_, _, _)
GenerateNewFiles(new_files, v, acc) ==
    IF new_files = <<>> THEN acc
    ELSE LET path == Head(new_files) IN
         IF path \in Range(acc.files) THEN GenerateNewFiles(Tail(new_files), v, acc)
         ELSE GenerateNewFiles(Tail(new_files), v,
                [acc EXCEPT !.created_files = DictSet(@, path, CodeText(v)),
                            !.roles = DictSet(@, path, "generated for change request"),
                            !.summaries = DictSet(@, path, SummaryText(v)),
                            !.files = Append(@, path),
                            !.calls = @ + 2])

\* lines 630-648: generate the new files; iterating a new_files that is no list raises
UpdateNewFiles(i) ==
    /\ inv[i].pc = "update_new_files"
    /\ \E ok \in BOOLEAN :
        LET l == inv[i]
            v == l.variant
            out == GenerateNewFiles(IF l.new_files.t = "list" THEN l.new_files.items ELSE <<>>, v,
                        [created_files |-> EmptyDict, roles |-> l.roles, summaries |-> l.summaries,
                         files |-> l.files, calls |-> 0])
        IN IF l.new_files.t = "list" /\ (ok \/ out.calls = 0)
           THEN /\ inv' = [inv EXCEPT ![i].created_files = out.created_files,
                                      ![i].roles = out.roles,
                                      ![i].summaries = out.summaries,
                                      ![i].files = out.files,
                                      ![i].next = 1,
                                      ![i].pc = IF l.updated_files \o out.created_files = <<>>
                                                THEN "update_save_snapshot"
                                                ELSE "update_save_files"]
                /\ hist' = [hist EXCEPT ![i].genCalls = @ + out.calls]
           ELSE /\ inv' = Raise(i, IF l.new_files.t = "list" THEN "service" ELSE "TypeError")
                /\ UNCHANGED hist
    /\ UNCHANGED <<store, started, touched>>
    /\ UNCHANGED call

\* UpdateSaveFile with the snapshot written after every file
UpdateSaveFileAndSnapshot(i) ==
    /\ inv[i].pc = "update_save_files"
    /\ \E ok \in BOOLEAN :
        LET l == inv[i]
            to_save == l.updated_files \o l.created_files
            item == to_save[l.next]
            key == file_key(l.project_id, item.k)
        IN IF ok
           THEN /\ store' = save_snapshot(put_object(store, key, TextBody(item.v)), l.project_id,
                                           UpdateSnapshot(l.project_id, l.language, l.snapshot, l.global_spec,
                                                          l.files, l.roles, l.summaries, l.change_spec.text))
                /\ inv' = [inv EXCEPT ![i].next = @ + 1,
                                      ![i].pc = IF l.next = Len(to_save)
                                                THEN "update_save_snapshot"
                                                ELSE "update_save_files"]
                /\ hist' = [hist EXCEPT ![i].storeWrites = @ + 2, ![i].savedPaths = @ \cup {item.k},
                                         ![i].snapshotWrites = @ + 1]
                /\ touched' = Written(l.project_id, key)
           ELSE /\ inv' = Raise(i, "store")
                /\ UNCHANGED <<store, hist, touched>>
    /\ UNCHANGED started
    /\ UNCHANGED call

\* lines 645-648 and 91-98: save_code_files of the updated, then of the created
\* files, one put_object per step
UpdateSaveFile(i) ==
    /\ inv[i].pc = "update_save_files"
    /\ \E ok \in BOOLEAN :
        LET l == inv[i]
            to_save == l.updated_files \o l.created_files
            item == to_save[l.next]
            key == file_key(l.project_id, item.k)
        IN IF ok
           THEN /\ store' = put_object(store, key, TextBody(item.v))
                /\ inv' = [inv EXCEPT ![i].next = @ + 1,
                                      ![i].pc = IF l.next = Len(to_save)
                                                THEN "update_save_snapshot"
                                                ELSE "update_save_files"]
                /\ hist' = [hist EXCEPT ![i].storeWrites = @ + 1, ![i].savedPaths = @ \cup {item.k}]
                /\ touched' = Written(l.project_id, key)
           ELSE /\ inv' = Raise(i, "store")
                /\ UNCHANGED <<store, hist, touched>>
    /\ UNCHANGED started
    /\ UNCHANGED call

\* lines 651-682: write the snapshot and return
UpdateSaveSnapshot(i) ==
    /\ inv[i].pc = "update_save_snapshot"
    /\ \E ok \in BOOLEAN :
        LET l == inv[i]
            new_snapshot == UpdateSnapshot(l.project_id, l.language, l.snapshot, l.global_spec,
                                           l.files, l.roles, l.summaries, l.change_spec.text)
        IN IF ok
           THEN /\ store' = save_snapshot(store, l.project_id, new_snapshot)
                /\ inv' = [inv EXCEPT ![i] = Finish(l, "returned",
                                            Response("", FALSE,
                                                DictKeys(l.updated_files) \o DictKeys(l.created_files)))]
                /\ hist' = [hist EXCEPT ![i].storeWrites = @ + 1, ![i].snapshotWrites = @ + 1]
                /\ touched' = Written(l.project_id, snapshot_key(l.project_id))
           ELSE /\ inv' = Raise(i, "store")
                /\ UNCHANGED <<store, hist, touched>>
    /\ UNCHANGED started
    /\ UNCHANGED call

----------------------------------------------------------------------------
(* The process running an invocation stops: a crash, a cancellation, a timeout *)

Crash(i) ==
    /\ inv[i].pc \notin Finished \cup {"idle"}
    /\ inv' = [inv EXCEPT ![i] = Finish(inv[i], "crashed", NoResponse)]
    /\ UNCHANGED <<store, started, hist, touched>>
    /\ UNCHANGED call

----------------------------------------------------------------------------

\* one step of the invocation in slot i, whatever the inputs
FlowStep(i) ==
    \/ LoadSnapshot(i)
    \/ SaveRequirement(i)
    \/ CreateSaveFile(i)
    \/ CreateSaveSnapshot(i)
    \/ UpdateRegenerate(i)
    \/ UpdateNewFiles(i)
    \/ UpdateSaveFile(i)
    \/ UpdateSaveSnapshot(i)
    \/ Crash(i)

\* invocations on one project, one after the other, from an empty bucket
Next ==
    \/ Invoke(1, Payloads, MaxInvocations)
    \/ CreateGenerate(1, PlanTexts)
    \/ UpdatePlan(1, ChangeSpecTexts)
    \/ FlowStep(1)

Spec == Init /\ [][Next]_vars

\* overlapping invocations on one project: one payload, one plan, two change specs
OverlapPayloads ==
    {pl \in PayloadsFor({"p"}) : pl.language = "TypeScript" /\ pl.prompt # ""}

OverlapPlanTexts == {t \in PlanTexts : t.text = "[a.ts, b.ts]"}

OverlapChangeSpecTexts ==
    {t \in ChangeSpecTexts :
        t.text \in {"{impactedFiles: [a.ts, missing.ts], newFiles: []}",
                    "{files_to_update: [b.ts], newFiles: [n.ts, n.ts, a.ts]}"}}

NextOverlapping ==
    \E i \in Slots :
        \/ Invoke(i, OverlapPayloads, MaxOverlapping)
        \/ CreateGenerate(i, OverlapPlanTexts)
        \/ UpdatePlan(i, OverlapChangeSpecTexts)
        \/ FlowStep(i)

SpecOverlapping == Init /\ [][NextOverlapping]_vars

\* invocations, one after the other, on two projects: the id of the second is
\* the id of the first followed by "/files"
IsolationPlanTexts == {t \in PlanTexts : t.text \in {"[a.ts, b.ts]", "[snapshot.json]"}}

NextIsolation ==
    \/ Invoke(1, PayloadsFor(ProjectIds), MaxInvocations)
    \/ CreateGenerate(1, IsolationPlanTexts)
    \/ UpdatePlan(1, OverlapChangeSpecTexts)
    \/ FlowStep(1)

SpecIsolation == Init /\ [][NextIsolation]_vars


----------------------------------------------------------------------------
(* What the store holds for a project *)

HasSnapshot(s, p) == snapshot_key(p) \in DOMAIN s /\ s[snapshot_key(p)].kind = "json"

\* the paths a project's stored snapshot lists
KnownFiles(s, p) ==
    IF HasSnapshot(s, p) THEN Range(SnapGet(s[snapshot_key(p)].doc, "files", <<>>)) ELSE {}

\* the snapshot documents in the store
StoredSnapshots == {store[key].doc : key \in {k \in DOMAIN store : store[k].kind = "json"}}

SnapshotIsEmpty(snapshot) ==
    snapshot.d = EmptyDict \/ SnapGet(snapshot, "files", <<>>) = <<>>

MissingRequirementError == "Missing 'prompt', 'requirement' or 'changeRequest' in payload"

----------------------------------------------------------------------------
(* C1: an invocation with a requirement text runs the Create flow exactly  *)
(* when the snapshot it loaded is absent or lists no files, the Update     *)
(* flow otherwise, and never both; one that returns has run exactly one.   *)

C1_OneFlowBySnapshot ==
    \A i \in Slots :
        LET l == inv[i]
            h == hist[i]
        IN /\ l.pc \in CreatePCs => SnapshotIsEmpty(l.snapshot) /\ ~h.ranUpdate
           /\ l.pc \in UpdatePCs => ~SnapshotIsEmpty(l.snapshot) /\ ~h.ranCreate
           /\ ~(h.ranCreate /\ h.ranUpdate)
           /\ (l.pc = "returned" /\ l.response.error # MissingRequirementError)
                => (h.ranCreate # h.ranUpdate)

\* the Create flow entered for a project whose stored snapshot lists no files
C1_Witness ==
    \E i \in Slots :
        /\ inv[i].pc \in CreatePCs
        /\ inv[i].snapshot.d # EmptyDict
        /\ hist[i].ranCreate

----------------------------------------------------------------------------
(* C2: every step an invocation takes before its snapshot write leaves the *)
(* project's stored snapshot and the stored content of every file the      *)
(* snapshot lists as they were, so stopping there leaves the prior state.  *)

PriorStateKept(p) ==
    /\ snapshot_key(p) \in DOMAIN store => store'[snapshot_key(p)] = store[snapshot_key(p)]
    /\ snapshot_key(p) \notin DOMAIN store => snapshot_key(p) \notin DOMAIN store'
    /\ \A path \in KnownFiles(store, p) :
          file_key(p, path) \in DOMAIN store =>
              store'[file_key(p, path)] = store[file_key(p, path)]

C2_NoChangeBeforeCommit ==
    [][\A i \in Slots :
          (inv'[i] # inv[i] /\ inv[i].pc \notin {"create_save_snapshot", "update_save_snapshot"})
              => PriorStateKept(inv[i].project_id)]_vars

----------------------------------------------------------------------------
(* C3: in every snapshot in the store, each path of `files` has an entry   *)
(* in `roles` and an entry in `summaries`.                                 *)

C3_FilesHaveRolesAndSummaries ==
    \A snapshot \in StoredSnapshots :
        LET files == Range(SnapGet(snapshot, "files", <<>>))
        IN /\ files \subseteq DictKeySet(SnapGet(snapshot, "roles", EmptyDict))
           /\ files \subseteq DictKeySet(SnapGet(snapshot, "summaries", EmptyDict))

\* a stored snapshot that lists a created file and a file added by an update
C3_Witness ==
    \E snapshot \in StoredSnapshots :
        {"a.ts", "b.ts", "n.ts"} \subseteq Range(SnapGet(snapshot, "files", <<>>))

----------------------------------------------------------------------------
(* C4: overlapping invocations on one project can lose an update.  The     *)
(* snapshot an Update writes is computed from the snapshot it loaded alone *)
(* (its files, then the files it created; the summaries it loaded for the  *)
(* files it did not regenerate), whatever the store holds by then.         *)

C4_SnapshotFromOwnRead ==
    [][\A i \in Slots :
          (inv[i].pc = "update_save_snapshot" /\ inv'[i].pc = "returned")
          => LET l == inv[i]
                 doc == store'[snapshot_key(l.project_id)].doc
                 loaded == SnapGet(l.snapshot, "files", <<>>)
             IN /\ SnapGet(doc, "files", <<>>) = loaded \o DictKeys(l.created_files)
                /\ \A path \in Range(loaded) \ DictKeySet(l.updated_files) :
                      DictGet(SnapGet(doc, "summaries", EmptyDict), path, "")
                        = DictGet(SnapGet(l.snapshot, "summaries", EmptyDict), path, "")]_vars

\* two Update invocations have both written their snapshot and returned; one
\* reported n.ts as created, and the stored snapshot does not list n.ts
C4_Witness ==
    \E i, j \in Slots :
        /\ i # j
        /\ inv[i].pc = "returned" /\ inv[j].pc = "returned"
        /\ hist[i].ranUpdate /\ hist[j].ranUpdate
        /\ hist[i].snapshotWrites = 1 /\ hist[j].snapshotWrites = 1
        /\ inv[i].project_id = inv[j].project_id
        /\ "n.ts" \in Range(inv[i].response.files)
        /\ HasSnapshot(store, inv[i].project_id)
        /\ "n.ts" \notin KnownFiles(store, inv[i].project_id)

----------------------------------------------------------------------------
(* C5: for two distinct projectIds, no key written by an invocation for    *)
(* one is a key read or written by an invocation for the other.            *)

C5_DisjointKeys ==
    \A P, Q \in ProjectIds :
        P # Q => touched[P].written \cap (touched[Q].read \cup touched[Q].written) = {}

----------------------------------------------------------------------------
(* C6: the snapshot an Update writes has the `language` and the            *)
(* `framework` of the snapshot the Update loaded.                          *)

C6_StackKeptByUpdate ==
    [][\A i \in Slots :
          (inv[i].pc = "update_save_snapshot" /\ inv'[i].pc = "returned")
          => LET doc == store'[snapshot_key(inv[i].project_id)].doc
             IN /\ SnapGet(doc, "language", "") = SnapGet(inv[i].snapshot, "language", "")
                /\ SnapGet(doc, "framework", "") = SnapGet(inv[i].snapshot, "framework", "")]_vars

----------------------------------------------------------------------------
(* C7: a failed generation call and a plan entry without a `path` never    *)
(* end invoke in a thrown error, and an invocation that ran a flow and     *)
(* generated no file returns a response with an `error` field.             *)

C7_AlwaysAResponse ==
    \A i \in Slots :
        /\ inv[i].response.kind = "exception" => inv[i].response.error \notin {"service", "KeyError"}
        /\ (inv[i].pc = "returned" /\ (hist[i].ranCreate \/ hist[i].ranUpdate)
              /\ inv[i].response.files = <<>>)
             => inv[i].response.error # ""

----------------------------------------------------------------------------
(* C8: an invocation without a requirement text returns the error response *)
(* and nothing else: it never enters a flow, reads or writes no object     *)
(* and makes no generation call.                                           *)

C8_MissingRequirementDoesNothing ==
    \A i \in Slots :
        /\ inv[i].pc \notin Finished \cup {"idle"} => inv[i].requirement # ""
        /\ inv[i].response.error = MissingRequirementError
             => /\ inv[i].pc = "returned"
                /\ inv[i].response.kind = "response"
                /\ hist[i] = FreshHistory

\* the error response returned for a project that has a stored snapshot
C8_Witness ==
    \E i \in Slots :
        /\ inv[i].pc = "returned"
        /\ inv[i].response.error = MissingRequirementError
        /\ HasSnapshot(store, inv[i].project_id)

----------------------------------------------------------------------------
(* C9: the impacted paths an Update resolves are paths of the loaded       *)
(* snapshot; it regenerates only such paths, creates only paths that       *)
(* `newFiles` lists and that are not known, stores nothing else and adds   *)
(* nothing else to the file list.                                          *)

DeclaredNewFiles(change_spec) ==
    LET new_files == ParsedImpact(change_spec).new_files
    IN IF new_files.t = "list" THEN Range(new_files.items) ELSE {}

C9_OnlyKnownOrDeclaredPaths ==
    \A i \in Slots :
        inv[i].pc \in UpdatePCs \ {"update"}
        => LET l == inv[i]
               known == Range(SnapGet(l.snapshot, "files", <<>>))
               declared == DeclaredNewFiles(l.change_spec)
           IN /\ Range(l.impacted_files) \subseteq known
              /\ DictKeySet(l.updated_files) \subseteq known
              /\ DictKeySet(l.created_files) \subseteq declared \ known
              /\ hist[i].savedPaths \subseteq known \cup declared
              /\ Range(l.files) \subseteq known \cup declared

\* an Update whose change spec names a.ts and the unknown missing.ts has
\* regenerated a.ts and is about to write its snapshot
C9_Witness ==
    \E i \in Slots :
        /\ inv[i].pc = "update_save_snapshot"
        /\ inv[i].change_spec.text = "{impactedFiles: [a.ts, missing.ts], newFiles: []}"
        /\ DictKeySet(inv[i].updated_files) = {"a.ts"}
        /\ hist[i].savedPaths = {"a.ts"}

----------------------------------------------------------------------------
(* C10: for a project with at least one known file, each with a summary,   *)
(* the impacted paths and the new files that find_impacted_files_from_spec *)
(* returns are not both empty.                                             *)

C10_SomeFileToActOn ==
    \A i \in Slots :
        LET l == inv[i]
            files == SnapGet(l.snapshot, "files", <<>>)
        IN (/\ l.pc \in UpdatePCs \ {"update"}
            /\ files # <<>>
            /\ Range(files) \subseteq DictKeySet(SnapGet(l.snapshot, "summaries", EmptyDict)))
           => \/ l.impacted_files # <<>>
              \/ (l.new_files.t = "list" /\ l.new_files.items # <<>>)

----------------------------------------------------------------------------
(* C11: an Update that writes its snapshot has written no stored content   *)
(* of a known file outside the resolved impacted list and has kept that    *)
(* file's summary and role as loaded; every impacted file it loaded has    *)
(* the regenerated content stored and the summary made from that content.  *)

\* the keys under which an invocation has written file contents
ContentKeysWritten(project_id, h) == {file_key(project_id, path) : path \in h.savedPaths}

C11_OnlyImpactedTouched ==
    [][\A i \in Slots :
          (inv[i].pc = "update_save_snapshot" /\ inv'[i].pc = "returned")
          => LET l == inv[i]
                 p == l.project_id
                 doc == store'[snapshot_key(p)].doc
                 known == Range(SnapGet(l.snapshot, "files", <<>>))
             IN /\ \A path \in known \ Range(l.impacted_files) :
                      /\ file_key(p, path) \notin ContentKeysWritten(p, hist[i])
                      /\ DictGet(SnapGet(doc, "summaries", EmptyDict), path, "")
                           = DictGet(SnapGet(l.snapshot, "summaries", EmptyDict), path, "")
                      /\ DictGet(SnapGet(doc, "roles", EmptyDict), path, "")
                           = DictGet(SnapGet(l.snapshot, "roles", EmptyDict), path, "")
                /\ \A path \in DictKeySet(l.updated_files) :
                      /\ store'[file_key(p, path)] = TextBody(CodeText(l.variant))
                      /\ DictGet(SnapGet(doc, "summaries", EmptyDict), path, "")
                           = SummaryText(l.variant)]_vars

----------------------------------------------------------------------------
(* C12: when the planning text is no JSON list, the plan of a              *)
(* typescript/nestjs Create is the four skeleton paths in order and the    *)
(* plan of any other stack is empty; a Create with an empty plan           *)
(* generates and stores no file, writes a snapshot without files and       *)
(* returns a response without an error.                                    *)

SkeletonPaths == <<"src/main.ts", "src/app.module.ts", "src/app.controller.ts", "src/app.service.ts">>

PlanPaths(file_plan) == [n \in DOMAIN file_plan |-> DictGet(file_plan[n].d, "path", "")]

C12_FallbackPlan ==
    [][\A i \in Slots :
          LET l == inv[i]
              after == inv'[i]
          IN /\ (/\ l.pc = "create_generate"
                 /\ after.pc \in {"create_save_files", "create_save_snapshot"}
                 /\ after.plan_text.parsed.t # "list")
                => IF l.language = "typescript" /\ l.framework = "nestjs"
                   THEN /\ PlanPaths(after.file_plan) = SkeletonPaths
                        /\ DictKeys(after.generated_files) = SkeletonPaths
                   ELSE /\ after.file_plan = <<>>
                        /\ after.generated_files = EmptyDict
                        /\ after.pc = "create_save_snapshot"
                        /\ hist'[i].savedPaths = {}
             /\ (/\ l.pc = "create_save_snapshot"
                 /\ l.file_plan = <<>>
                 /\ after.pc = "returned")
                => /\ after.response = Response("", TRUE, <<>>)
                   /\ hist'[i].savedPaths = {}
                   /\ KnownFiles(store', l.project_id) = {}]_vars

\* a typescript/nestjs Create given a planning text that is not JSON has
\* generated the skeleton, on a project whose stored snapshot, written by a
\* Create with an empty plan, lists no files
C12_Witness ==
    \E i \in Slots :
        /\ inv[i].pc = "create_save_snapshot"
        /\ inv[i].plan_text.parsed.t = "invalid"
        /\ DictKeys(inv[i].generated_files) = SkeletonPaths
        /\ hist[i].savedPaths = Range(SkeletonPaths)
        /\ HasSnapshot(store, inv[i].project_id)
        /\ SnapGet(store[snapshot_key(inv[i].project_id)].doc, "files", <<"none">>) = <<>>

----------------------------------------------------------------------------
(* The pure helpers called on their own *)

\* length of the longest text given to chunk_requirement
MaxTextLen == 4

\* iterations of chunk_requirement's loop that are followed: more than any text
\* needs when every iteration takes at least one character
MaxChunkSteps == MaxTextLen + 2

\* the texts over two characters, up to a length
RECURSIVE TextsUpTo(_)
TextsUpTo(n) ==
    IF n = 0 THEN {""}
    ELSE LET shorter == TextsUpTo(n - 1)
         IN shorter \cup {t \o c : t \in shorter, c \in {"a", "b"}}

\* max_chars values: negative, zero, shorter than the text, longer than the text
ChunkSizes == -2 .. (MaxTextLen + 1)

ChunkCalls ==
    {[NoCall EXCEPT !.fn = "chunk_requirement", !.pc = "loop", !.text = text, !.n = max_chars] :
        text \in TextsUpTo(MaxTextLen), max_chars \in ChunkSizes}

\* lines 219-222: the loop test holds, one iteration
ChunkIterate ==
    /\ call.fn = "chunk_requirement"
    /\ call.pc = "loop"
    /\ call.start < Len(call.text)
    /\ Len(call.chunks) < MaxChunkSteps
    /\ LET after == chunk_body(call.text, call.n, call.start, call.chunks)
       IN call' = [call EXCEPT !.start = after.start, !.chunks = after.chunks]
    /\ UNCHANGED <<store, inv, started, hist, touched>>

\* lines 219 and 223: the loop test fails, the chunks are returned
ChunkReturn ==
    /\ call.fn = "chunk_requirement"
    /\ call.pc = "loop"
    /\ ~(call.start < Len(call.text))
    /\ call' = [call EXCEPT !.pc = "returned", !.result = call.chunks]
    /\ UNCHANGED <<store, inv, started, hist, touched>>

\* paths a block may carry: two plain paths and one with a leading space
BlockPaths == {"a.ts", "b.ts", " c.ts"}

\* contents a block may carry: empty, one line with and without its newline,
\* blank lines inside and in front, spaces in front and behind, and a line that
\* reads as a marker
BlockContents ==
    {"", "x", "x\n", "x\n\n", "x\n\ny", "\nx", "  x", "x  ", "<<<FILE:z.ts>>>\nz"}

\* number of blocks in one formatted text
MaxBlocks == 2

\* the mappings path -> content of up to MaxBlocks entries, in every order
RECURSIVE MappingsUpTo(_)
MappingsUpTo(n) ==
    IF n = 0 THEN {EmptyDict}
    ELSE LET smaller == MappingsUpTo(n - 1)
         IN smaller \cup {Append(d, [k |-> path, v |-> content]) :
                             d \in {m \in smaller : Len(m) = n - 1},
                             path \in BlockPaths, content \in BlockContents}

ParseCalls ==
    {[NoCall EXCEPT !.fn = "parse_llm_files", !.pc = "call", !.mapping = files,
                    !.text = FormatBlocks(files)] :
        files \in {d \in MappingsUpTo(MaxBlocks) : NoDuplicates(DictKeys(d))}}

\* lines 118-142: parse_llm_files on a text formatted as the flows format it
ParseLlmFiles ==
    /\ call.fn = "parse_llm_files"
    /\ call.pc = "call"
    /\ call' = [call EXCEPT !.pc = "returned", !.result = parse_llm_files(call.text)]
    /\ UNCHANGED <<store, inv, started, hist, touched>>

\* queries: empty, a word no summary has, a word some summaries have, two
\* words, and a capitalised word next to one too short to count
Queries == {"", "zzz", "alpha", "alpha beta", "Alpha ab"}

CandidatePaths == {"a.ts", "b.ts", "c.ts"}

CandidateSummaries == {"alpha", "beta alpha alpha", "none"}

\* number of candidates in one mapping of summaries
MaxCandidates == 3

\* the mappings path -> summary of up to MaxCandidates entries, in every order
RECURSIVE SummariesUpTo(_)
SummariesUpTo(n) ==
    IF n = 0 THEN {EmptyDict}
    ELSE LET smaller == SummariesUpTo(n - 1)
         IN smaller \cup {Append(d, [k |-> path, v |-> summ]) :
                             d \in {m \in smaller : Len(m) = n - 1},
                             path \in CandidatePaths, summ \in CandidateSummaries}

\* max_count values: none, fewer than the candidates, the default
MaxCounts == {0, 1, 2, DEFAULT_MAX_COUNT}

RelevantCalls ==
    {[NoCall EXCEPT !.fn = "relevant_files", !.pc = "call", !.text = prompt,
                    !.mapping = summaries, !.n = max_count] :
        prompt \in Queries,
        summaries \in {d \in SummariesUpTo(MaxCandidates) : NoDuplicates(DictKeys(d))},
        max_count \in MaxCounts}

\* lines 153-176
RelevantFiles ==
    /\ call.fn = "relevant_files"
    /\ call.pc = "call"
    /\ call' = [call EXCEPT !.pc = "returned",
                            !.result = relevant_files(call.text, call.mapping, call.n)]
    /\ UNCHANGED <<store, inv, started, hist, touched>>

PureCalls == ChunkCalls \cup ParseCalls \cup RelevantCalls

InitPure ==
    /\ store = EmptyStore
    /\ inv = [i \in Slots |-> IdleLocals]
    /\ started = 0
    /\ hist = [i \in Slots |-> FreshHistory]
    /\ touched = [p \in ProjectIds |-> NoKeys]
    /\ call \in PureCalls

NextPure ==
    \/ ChunkIterate
    \/ ChunkReturn
    \/ ParseLlmFiles
    \/ RelevantFiles

SpecPure == InitPure /\ [][NextPure]_vars

----------------------------------------------------------------------------
(* C13: for every text and every max_chars >= 1, the chunks returned by    *)
(* chunk_requirement are the consecutive slices of the text of max_chars   *)
(* characters each, the last one possibly shorter: none is empty, none     *)
(* is longer than max_chars, their concatenation is the text, and an       *)
(* empty text gives no chunk.                                              *)

RECURSIVE Concat(_)
Concat(chunks) == IF chunks = <<>> THEN "" ELSE Head(chunks) \o Concat(Tail(chunks))

C13_ChunksCoverText ==
    (call.fn = "chunk_requirement" /\ call.pc = "returned" /\ call.n >= 1)
    => LET chunks == call.result
           text == call.text
       IN /\ Concat(chunks) = text
          /\ \A k \in DOMAIN chunks :
                /\ Len(chunks[k]) >= 1
                /\ Len(chunks[k]) <= call.n
                /\ k < Len(chunks) => Len(chunks[k]) = call.n
                /\ chunks[k] = SubSeq(text, (k - 1) * call.n + 1,
                                      IF k * call.n < Len(text) THEN k * call.n ELSE Len(text))
          /\ (text = "") = (chunks = <<>>)
          /\ chunks = chunk_requirement(text, call.n)

\* a text of three characters returned in two chunks, the second shorter
C13_Witness ==
    /\ call.fn = "chunk_requirement"
    /\ call.pc = "returned"
    /\ call.n = 2
    /\ Len(call.text) = 3
    /\ Len(call.result) = 2
    /\ Len(call.result[2]) = 1

----------------------------------------------------------------------------
(* C14: for every text and every integer max_chars, each iteration of      *)
(* chunk_requirement's loop moves `start` forward, so that the loop ends   *)
(* and the list of chunks is returned.                                     *)

C14_EveryIterationAdvances ==
    [][(call.fn = "chunk_requirement" /\ call.pc = "loop" /\ call'.pc = "loop" /\ call' # call)
         => call'.start > call.start]_vars

----------------------------------------------------------------------------
(* C15: a mapping path -> content formatted into blocks and parsed by      *)
(* parse_llm_files comes back with the same paths, each with its content   *)
(* ending in exactly one newline.                                          *)

\* the content with its trailing newlines replaced by one
EndWithOneNewline(content) == rstrip(content, "\n") \o "\n"

C15_BlocksRoundTrip ==
    (call.fn = "parse_llm_files" /\ call.pc = "returned")
    => call.result = [n \in DOMAIN call.mapping |->
                        [k |-> call.mapping[n].k, v |-> EndWithOneNewline(call.mapping[n].v)]]

----------------------------------------------------------------------------
(* C16: when no candidate scores above 0, relevant_files returns the first *)
(* two candidates (or the only one, or none) in the mapping's order;       *)
(* otherwise it returns the candidates that score above 0, higher scores   *)
(* first and equal scores in the mapping's order, cut to max_count.        *)

\* the score of the n-th candidate of the mapping
ScoreOf(prompt, summaries, n) == Scored(QueryWords(prompt), summaries)[n].score

\* candidate m comes before candidate n in the ranking
RankedBefore(prompt, summaries, m, n) ==
    \/ ScoreOf(prompt, summaries, m) > ScoreOf(prompt, summaries, n)
    \/ ScoreOf(prompt, summaries, m) = ScoreOf(prompt, summaries, n) /\ m < n

\* the candidates that score above 0, ranked
RankedHits(prompt, summaries) ==
    LET positive == {n \in DOMAIN summaries : ScoreOf(prompt, summaries, n) > 0}
        rank(n) == 1 + Cardinality({m \in positive : RankedBefore(prompt, summaries, m, n)})
    IN [r \in 1 .. Cardinality(positive) |->
            summaries[CHOOSE n \in positive : rank(n) = r].k]

C16_RankedOrFirstTwo ==
    (call.fn = "relevant_files" /\ call.pc = "returned")
    => LET hits == RankedHits(call.text, call.mapping)
           paths == DictKeys(call.mapping)
       IN IF hits = <<>>
          THEN call.result = SubSeq(paths, 1, IF Len(paths) < 2 THEN Len(paths) ELSE 2)
          ELSE call.result = SubSeq(hits, 1, IF Len(hits) < call.n THEN Len(hits) ELSE call.n)

----------------------------------------------------------------------------
(* C17: an invocation that runs a flow reads the snapshot once, before any *)
(* of its store writes; it writes the snapshot at most once, once when it  *)
(* returns from its flow; and it does nothing after that write: every      *)
(* file content it writes and every generation call it makes comes first.  *)

\* the step is one of invocation i at work (not the start of a new invocation)
WorkStep(i) == hist'[i] # hist[i] /\ hist'[i] # FreshHistory

C17_SnapshotReadFirstWrittenLast ==
    [][\A i \in Slots :
          /\ WorkStep(i)
               => /\ hist[i].snapshotWrites = 0
                  /\ hist'[i].snapshotReads = 1
                  /\ hist'[i].snapshotWrites <= 1
                  /\ hist'[i].storeWrites > hist[i].storeWrites => hist[i].snapshotReads = 1
                  /\ hist'[i].snapshotWrites = 1 => inv'[i].pc = "returned"
          /\ (inv[i].pc \in CreatePCs \cup UpdatePCs /\ inv'[i].pc = "returned")
               => /\ hist'[i].snapshotReads = 1
                  /\ hist'[i].snapshotWrites = 1
                  /\ hist'[i].storeWrites = hist[i].storeWrites + 1]_vars

\* an Update has returned after one snapshot read, a code file read, two
\* content writes and its snapshot write
C17_Witness ==
    \E i \in Slots :
        /\ inv[i].pc = "returned"
        /\ hist[i].ranUpdate
        /\ hist[i].snapshotReads = 1
        /\ hist[i].storeReads = 2
        /\ Cardinality(hist[i].savedPaths) = 2
        /\ hist[i].storeWrites = 3
        /\ hist[i].snapshotWrites = 1

----------------------------------------------------------------------------
(* C18: an Update that cannot load the old content of an impacted path     *)
(* goes on without raising; it makes no generation call for that path,     *)
(* writes no content for it, keeps its summary and leaves it out of the    *)
(* updated files, while it regenerates the other impacted paths, creates   *)
(* the new files and writes its snapshot.                                  *)

C18_UnreadableFileSkipped ==
    [][\A i \in Slots :
          LET l == inv[i]
              h == hist[i]
              skipped == hist'[i].unreadable
              loaded == SnapGet(l.snapshot, "summaries", EmptyDict)
          IN /\ (l.pc = "update_regenerate" /\ skipped # h.unreadable)
                => /\ inv'[i].pc \in {"update_regenerate", "update_new_files"}
                   /\ hist'[i].genCalls = h.genCalls
                   /\ inv'[i].updated_files = l.updated_files
                   /\ inv'[i].summaries = l.summaries
             /\ (l.pc = "update_save_snapshot" /\ inv'[i].pc = "returned")
                => LET doc == store'[snapshot_key(l.project_id)].doc
                   IN /\ DictKeySet(l.updated_files) = Range(l.impacted_files) \ skipped
                      /\ DictKeySet(l.created_files)
                           = DeclaredNewFiles(l.change_spec) \ Range(SnapGet(l.snapshot, "files", <<>>))
                      /\ h.savedPaths = DictKeySet(l.updated_files) \cup DictKeySet(l.created_files)
                      /\ h.genCalls = 1 + 2 * Len(l.updated_files) + 2 * Len(l.created_files)
                      /\ inv'[i].response.files = DictKeys(l.updated_files) \o DictKeys(l.created_files)
                      /\ \A path \in skipped :
                            DictGet(SnapGet(doc, "summaries", EmptyDict), path, "")
                              = DictGet(loaded, path, "")]_vars

\* an Update could not load b.ts, created n.ts, wrote its snapshot and returned
C18_Witness ==
    \E i \in Slots :
        /\ inv[i].pc = "returned"
        /\ hist[i].unreadable = {"b.ts"}
        /\ hist[i].savedPaths = {"n.ts"}
        /\ hist[i].snapshotWrites = 1
        /\ inv[i].response.files = <<"n.ts">>

----------------------------------------------------------------------------
(* C19: in every snapshot in the store, no path occurs twice in `files`.   *)

C19_FilesWithoutDuplicates ==
    \A snapshot \in StoredSnapshots : NoDuplicates(SnapGet(snapshot, "files", <<>>))

\* the snapshot of a project created from a plan that repeats a.ts, then
\* updated by a change spec whose newFiles repeats n.ts and names the known a.ts
C19_Witness ==
    \E snapshot \in StoredSnapshots :
        /\ SnapGet(snapshot, "files", <<>>) = <<"a.ts", "/a.ts", "n.ts">>
        /\ SnapGet(snapshot, "lastChangeSpec", "") = "{files_to_update: [b.ts], newFiles: [n.ts, n.ts, a.ts]}"

----------------------------------------------------------------------------
(* C20: in every state of the store, every path that a project's stored    *)
(* snapshot lists has an object stored under the project's file key.       *)

C20_ListedFilesAreStored ==
    \A p \in ProjectIds :
        \A path \in KnownFiles(store, p) : file_key(p, path) \in DOMAIN store

\* an Update stopped after it stored the new file n.ts and before it wrote its
\* snapshot: the stored snapshot lists a.ts and b.ts
C20_Witness ==
    \E i \in Slots :
        /\ inv[i].pc = "crashed"
        /\ hist[i].ranUpdate
        /\ "n.ts" \in hist[i].savedPaths
        /\ hist[i].snapshotWrites = 0
        /\ KnownFiles(store, inv[i].project_id) = {"a.ts", "b.ts"}
        /\ file_key(inv[i].project_id, "n.ts") \in DOMAIN store

----------------------------------------------------------------------------
(* C21: two distinct paths that a project's stored snapshot lists are      *)
(* stored under distinct keys, also when they differ only by leading       *)
(* slashes.                                                                *)

C21_DistinctPathsDistinctKeys ==
    \A p \in ProjectIds :
        \A path, other \in KnownFiles(store, p) :
            path # other => file_key(p, path) # file_key(p, other)

----------------------------------------------------------------------------
(* C22: once a project's stored snapshot lists files, a snapshot write by  *)
(* a later invocation, none overlapping another, keeps every listed path   *)
(* and the stored `globalSpec`, also when that invocation's snapshot read  *)
(* failed.                                                                 *)

C22_KnownFilesOnlyGrow ==
    [][\A p \in ProjectIds :
          (/\ HasSnapshot(store, p)
           /\ KnownFiles(store, p) # {}
           /\ store'[snapshot_key(p)] # store[snapshot_key(p)])
          => /\ HasSnapshot(store', p)
             /\ KnownFiles(store, p) \subseteq KnownFiles(store', p)
             /\ SnapGet(store'[snapshot_key(p)].doc, "globalSpec", "")
                  = SnapGet(store[snapshot_key(p)].doc, "globalSpec", "")]_vars

====
